---- MODULE Spec2Model ----
(***************************************************************************)
(* NeuroFocus (Neurofocus_app.py): the serial reader thread, the feedback  *)
(* writer, and the Streamlit script body (start button, stop button,       *)
(* monitoring tick).  One script run is one action: Start, Stop or Tick.   *)
(* Each SerialReader thread is a small program counter machine over the    *)
(* body of SerialReader.run.                                               *)
(***************************************************************************)
EXTENDS Integers, Sequences, FiniteSets, TLC

\* ---------------------------------------------------------------------
\* Program constants
\* ---------------------------------------------------------------------
SMOOTH_WINDOW == 8
THRESH_HIGH == 70
THRESH_MED == 40
HISTORY_MAXLEN == 400
ADC_FULL_SCALE == 1023
GAUSS_MU == 60

\* ---------------------------------------------------------------------
\* Exploration bounds
\* ---------------------------------------------------------------------
MaxReaders == 2       \* SerialReader threads created in one run of Spec
MaxTicks == 1         \* ticks per session in Spec
MaxQueue == 2         \* queue length up to which the readers are followed
MaxSignalTicks == 2   \* ticks per session in SpecSignal
MaxHistTicks == 402   \* ticks per session in SpecHist

None == "None"
Open == "open"
Unbound == <<"<unbound>">>
IOError == <<"<IOError>">>

\* st.session_state.reader = None / st.session_state.writer = None
NoReader == 0
NoWriter == [made |-> FALSE, ser |-> None]

\* nothing was written to the device
NoCommand == <<>>

Threads == 1..MaxReaders

\* ---------------------------------------------------------------------
\* Text: a line is a sequence of one-character strings
\* ---------------------------------------------------------------------
DigitChar == <<"0", "1", "2", "3", "4", "5", "6", "7", "8", "9">>

IsDigit(c) == \E d \in 1..10 : DigitChar[d] = c

DigitVal(c) == (CHOOSE d \in 1..10 : DigitChar[d] = c) - 1

IsSpace(c) == c \in {" ", "\t", "\r", "\n"}

Prefix == <<"P", "U", "L", "S", "E", "_", "R", "A", "W", ":">>

\* str.startswith
StartsWith(s, p) == Len(s) >= Len(p) /\ SubSeq(s, 1, Len(p)) = p

RECURSIVE LStrip(_)
LStrip(s) == IF s # <<>> /\ IsSpace(Head(s)) THEN LStrip(Tail(s)) ELSE s

RECURSIVE RStrip(_)
RStrip(s) ==
    IF s # <<>> /\ IsSpace(s[Len(s)]) THEN RStrip(SubSeq(s, 1, Len(s) - 1)) ELSE s

\* str.strip
Strip(s) == LStrip(RStrip(s))

\* str.split(sep): the sequence of fields between separators
RECURSIVE Split(_, _)
Split(s, sep) ==
    IF \E k \in 1..Len(s) : s[k] = sep
    THEN LET k == CHOOSE j \in 1..Len(s) : s[j] = sep /\ \A h \in 1..(j - 1) : s[h] # sep
         IN  <<SubSeq(s, 1, k - 1)>> \o Split(SubSeq(s, k + 1, Len(s)), sep)
    ELSE <<s>>

RECURSIVE DigitsValue(_)
DigitsValue(s) ==
    IF s = <<>> THEN 0 ELSE 10 * DigitsValue(SubSeq(s, 1, Len(s) - 1)) + DigitVal(s[Len(s)])

\* int(text): surrounding whitespace and one sign are accepted, then at least
\* one digit and nothing but digits; anything else raises ValueError (ok = FALSE)
ParseInt(text) ==
    LET t == Strip(text)
        signed == t # <<>> /\ Head(t) \in {"-", "+"}
        body == IF signed THEN Tail(t) ELSE t
        ok == body # <<>> /\ \A k \in 1..Len(body) : IsDigit(body[k])
    IN  IF ok
        THEN [ok |-> TRUE,
              val |-> IF signed /\ Head(t) = "-" THEN 0 - DigitsValue(body) ELSE DigitsValue(body)]
        ELSE [ok |-> FALSE, val |-> 0]

\* decimal text of a natural number, as the device prints it
RECURSIVE Digits(_)
Digits(n) ==
    IF n < 10 THEN <<DigitChar[n + 1]>> ELSE Digits(n \div 10) \o <<DigitChar[(n % 10) + 1]>>

\* the wire line the device sends for a raw reading
PulseLine(raw) == Prefix \o Digits(raw) \o <<"\r", "\n">>

\* ---------------------------------------------------------------------
\* Arithmetic
\* ---------------------------------------------------------------------
Min(a, b) == IF a < b THEN a ELSE b

Max(a, b) == IF a > b THEN a ELSE b

\* int(a / b) for b > 0: Python's int() truncates toward zero
TruncDiv(a, b) == IF a >= 0 THEN a \div b ELSE 0 - ((0 - a) \div b)

\* floor(a / b) for b > 0
FloorDiv(a, b) == a \div b

RECURSIVE Sum(_)
Sum(s) == IF s = <<>> THEN 0 ELSE Head(s) + Sum(Tail(s))

\* list(...)[-k:] for k >= 1
LastK(s, k) == SubSeq(s, Max(1, Len(s) - k + 1), Len(s))

\* faulty variant of Scale: the divisor is the number of ADC steps, not the full scale
ScaleBy1024(raw) == TruncDiv(100 * raw, ADC_FULL_SCALE + 1)

\* int(100.0 * (raw / 1023.0)).  The quotient 100*raw/1023 is an integer only
\* when 1023 divides raw and otherwise lies at least 1/1023 from any integer,
\* far beyond double rounding, so the float expression equals exact truncation.
Scale(raw) == TruncDiv(100 * raw, ADC_FULL_SCALE)

\* int(max(0, min(100, random.gauss(60, 8)))); g is the integer part of the draw
DemoSample(g) == Max(0, Min(100, g))

\* int(np.mean(window)) if window else val
Smooth(window, v) == IF window # <<>> THEN TruncDiv(Sum(window), Len(window)) ELSE v

\* the if / elif / else chain of the monitoring loop
Classify(s, high, med) == IF s >= high THEN 0 ELSE IF s >= med THEN 1 ELSE 2

\* faulty variant of DequeAppend: a full buffer refuses the new sample
DequeAppendDropsNewest(d, x, maxlen) == IF Len(d) >= maxlen THEN d ELSE Append(d, x)

\* deque(maxlen=n).append
DequeAppend(d, x, maxlen) ==
    IF Len(d) >= maxlen THEN Append(Tail(d), x) ELSE Append(d, x)

\* faulty variant of Decode: a payload that does not parse is queued as 0
DecodeZeroOnError(bytes, q) ==
    LET line == Strip(bytes)
    IN  IF StartsWith(line, Prefix)
        THEN LET p == ParseInt(Split(line, ":")[2])
             IN  IF p.ok THEN Append(q, Scale(p.val)) ELSE Append(q, 0)
        ELSE q

\* lines 57-64 of SerialReader.run on the bytes readline returned: the queue
\* after the line has been handled
Decode(bytes, q) ==
    LET line == Strip(bytes)
    IN  IF StartsWith(line, Prefix)
        THEN LET p == ParseInt(Split(line, ":")[2])
             IN  IF p.ok THEN Append(q, Scale(p.val)) ELSE q
        ELSE q

\* ---------------------------------------------------------------------
\* State
\* ---------------------------------------------------------------------
VARIABLES
    demo_mode,      \* sidebar checkbox as read by the latest Start/Tick run
    smooth_w,       \* sidebar sliders as read by the latest Tick run
    th_high,
    th_med,
    detected_port,  \* arduino_port_input or find_arduino_port(), latest Start run
    running,        \* st.session_state.running
    values,         \* st.session_state.values, deque(maxlen=400)
    serial_queue,   \* st.session_state.serial_queue, a plain list
    reader,         \* st.session_state.reader: None or a thread
    writer,         \* st.session_state.writer: None or an ArduinoWriter
    threads,        \* every SerialReader ever created: pc, ser, _stop
    val,            \* the sample of the latest tick (0 before the first)
    smooth,         \* the smoothed value of the latest tick
    level,          \* the level of the latest tick
    wire_out,       \* the command the latest tick wrote to the device, if any
    leaked,         \* history: handles dropped while open, never closed by the program
    wfail,          \* history: "none" until a send of the current writer fails, "failed"
                    \* after the failing send, "later" once send was called again
    rx,             \* history: what the latest observed readline() returned or raised
    nticks,         \* history: ticks since the latest start
    seen            \* history: every sample appended since the latest start

vars == <<demo_mode, smooth_w, th_high, th_med, detected_port, running, values,
          serial_queue, reader, writer, threads, val, smooth, level, wire_out,
          leaked, wfail, rx, nticks, seen>>

config == <<demo_mode, smooth_w, th_high, th_med, detected_port>>

outputs == <<val, smooth, level, wire_out>>

\* ---------------------------------------------------------------------
\* Input sets
\* ---------------------------------------------------------------------
\* the port the run resolved: none, or a device name
Ports == {None, "COM3"}

DefaultSliders == <<SMOOTH_WINDOW, THRESH_HIGH, THRESH_MED>>

\* slider positions <<smooth_w, th_high, th_med>>: smooth_w in 1..30,
\* th_high in 50..100, th_med in 0..99, each slider independent of the others
SliderChoices == {DefaultSliders, <<1, 50, 99>>}

\* integer parts of random.gauss(60, 8) draws
GaussDraws == {0 - 3, GAUSS_MU}

EmptyRead == <<>>

GarbageLine == <<"g", "a", "r", "b", "a", "g", "e", "\n">>

NoIntLine == Prefix \o <<"a", "b", "c", "\r", "\n">>

NoPayloadLine == Prefix \o <<"\r", "\n">>

NoColonLine == <<"P", "U", "L", "S", "E", "_", "R", "A", "W", "5", "\n">>

NegativeLine == Prefix \o <<"-", "1", "0", "0", "\n">>

OverRangeLine == Prefix \o <<"2", "0", "4", "6", "\n">>

\* what readline() returns in Spec
Lines == {EmptyRead, PulseLine(512)}

\* what readline() returns in SpecSignal
SignalLines == {EmptyRead, NegativeLine, OverRangeLine}

\* ---------------------------------------------------------------------
\* Initial state: the first script run, lines 127-145
\* ---------------------------------------------------------------------
NoThread == [pc |-> "unborn", ser |-> None, stop |-> FALSE]

Init ==
    /\ demo_mode = TRUE
    /\ smooth_w = SMOOTH_WINDOW
    /\ th_high = THRESH_HIGH
    /\ th_med = THRESH_MED
    /\ detected_port = None
    /\ running = FALSE
    /\ values = <<>>
    /\ serial_queue = <<>>
    /\ reader = NoReader
    /\ writer = NoWriter
    /\ threads = [i \in Threads |-> NoThread]
    /\ val = 0
    /\ smooth = 0
    /\ level = 0
    /\ wire_out = NoCommand
    /\ leaked = 0
    /\ wfail = "none"
    /\ rx = Unbound
    /\ nticks = 0
    /\ seen = <<>>

Created == {i \in Threads : threads[i].pc # "unborn"}

\* ---------------------------------------------------------------------
\* SerialReader
\* ---------------------------------------------------------------------
\* serial.Serial(port, baud, timeout=1) inside try/except: a handle or None
OpenPort(ok) == IF ok THEN Open ELSE None

\* SerialReader.__init__, which calls connect() once
NewReader(ok) == [pc |-> "top", ser |-> OpenPort(ok), stop |-> FALSE]

\* faulty variant of ReaderExit: run() returns without closing the handle
ReaderExitKeepsHandle(t) == [t EXCEPT !.pc = "done"]

\* the exit of run(), lines 71-75: close the handle if there is one
ReaderExit(t) ==
    [t EXCEPT !.pc = "done", !.ser = IF t.ser = Open THEN "closed" ELSE t.ser]

\* faulty variant of ReaderTop: a reader without a handle leaves the loop
ReaderTopGivesUp(i) ==
    /\ threads[i].pc = "top"
    /\ threads' = [threads EXCEPT ![i] =
            IF threads[i].stop \/ threads[i].ser = None THEN ReaderExit(threads[i])
            ELSE [threads[i] EXCEPT !.pc = "read"]]
    /\ UNCHANGED <<config, running, values, serial_queue, reader, writer, outputs,
                   leaked, wfail, rx, nticks, seen>>

\* while not self._stop: / if self.ser is None:
ReaderTop(i) ==
    /\ threads[i].pc = "top"
    /\ threads' = [threads EXCEPT ![i] =
            IF threads[i].stop THEN ReaderExit(threads[i])
            ELSE IF threads[i].ser = None THEN [threads[i] EXCEPT !.pc = "connect"]
            ELSE [threads[i] EXCEPT !.pc = "read"]]
    /\ UNCHANGED <<config, running, values, serial_queue, reader, writer, outputs,
                   leaked, wfail, rx, nticks, seen>>

\* self.connect(); time.sleep(1); continue
ReaderConnect(i, ok) ==
    /\ threads[i].pc = "connect"
    /\ threads' = [threads EXCEPT ![i].ser = OpenPort(ok), ![i].pc = "top"]
    /\ UNCHANGED <<config, running, values, serial_queue, reader, writer, outputs,
                   leaked, wfail, rx, nticks, seen>>

\* readline() returned bytes (empty on timeout); lines 57-64.
\* The history variable rx is set by the step that uses this action.
ReaderRead(i, bytes) ==
    /\ threads[i].pc = "read"
    /\ threads' = [threads EXCEPT ![i].pc = "top"]
    /\ serial_queue' = Decode(bytes, serial_queue)
    /\ UNCHANGED <<config, running, values, reader, writer, outputs, leaked, wfail,
                   nticks, seen>>

\* readline() raised; except Exception: close the handle, self.ser = None
ReaderReadError(i) ==
    /\ threads[i].pc = "read"
    /\ threads' = [threads EXCEPT ![i].ser = None, ![i].pc = "top"]
    /\ UNCHANGED <<config, running, values, serial_queue, reader, writer, outputs,
                   leaked, wfail, nticks, seen>>

\* ---------------------------------------------------------------------
\* ArduinoWriter
\* ---------------------------------------------------------------------
NewWriter(ok) == [made |-> TRUE, ser |-> OpenPort(ok)]

\* faulty variant of WriterSend: a failed write leaves the handle in place
WriterSendKeepsHandle(w, ok) == w

\* ArduinoWriter.send: the writer after the call; ok is whether write() succeeds.
\* On failure: self.ser.close(), self.ser = None.
WriterSend(w, ok) == IF w.ser = Open /\ ~ok THEN [w EXCEPT !.ser = None] ELSE w

\* faulty variant of WriterWrote: the command of the Relaxed level is not sent
WriterWroteSkipsRelaxed(w, cmd, ok) ==
    IF w.ser = Open /\ ok /\ cmd # <<"SET", 0>> THEN cmd ELSE NoCommand

\* what send put on the wire
WriterWrote(w, cmd, ok) == IF w.ser = Open /\ ok THEN cmd ELSE NoCommand

\* the history of the writer's failure after one more call of send
SendOutcome(w, h, ok) ==
    IF h # "none" THEN "later" ELSE IF w.ser = Open /\ ~ok THEN "failed" ELSE "none"

\* the old writer is replaced without close(): its handle, if open, is dropped
Dropped(w) == IF w.ser = Open THEN 1 ELSE 0

\* ---------------------------------------------------------------------
\* Script runs
\* ---------------------------------------------------------------------
\* faulty variant of Start: the hardware branch does not test the port
StartWithoutPortTest(d, p, rok, wok) ==
    /\ ~running
    /\ demo_mode' = d
    /\ detected_port' = p
    /\ values' = <<>>
    /\ nticks' = 0
    /\ seen' = <<>>
    /\ running' = TRUE
    /\ IF d
       THEN UNCHANGED <<reader, writer, threads, leaked, wfail>>
       ELSE /\ \E i \in Threads :
                /\ threads[i].pc = "unborn"
                /\ \A j \in 1..(i - 1) : threads[j].pc # "unborn"
                /\ threads' = [threads EXCEPT ![i] = NewReader(rok /\ p # None)]
                /\ reader' = i
            /\ writer' = NewWriter(wok /\ p # None)
            /\ leaked' = leaked + Dropped(writer)
            /\ wfail' = "none"
    /\ UNCHANGED <<smooth_w, th_high, th_med, serial_queue, outputs, rx>>

\* if start: lines 150-167.  d, p: the widgets as read by this run;
\* rok, wok: whether the reader's and the writer's open succeed
Start(d, p, rok, wok) ==
    /\ ~running
    /\ demo_mode' = d
    /\ detected_port' = p
    /\ values' = <<>>
    /\ nticks' = 0
    /\ seen' = <<>>
    /\ IF d
       THEN /\ running' = TRUE
            /\ UNCHANGED <<reader, writer, threads, leaked, wfail>>
       ELSE IF p = None
       THEN /\ running' = FALSE
            /\ UNCHANGED <<reader, writer, threads, leaked, wfail>>
       ELSE /\ running' = TRUE
            /\ \E i \in Threads :
                /\ threads[i].pc = "unborn"
                /\ \A j \in 1..(i - 1) : threads[j].pc # "unborn"
                /\ threads' = [threads EXCEPT ![i] = NewReader(rok)]
                /\ reader' = i
            /\ writer' = NewWriter(wok)
            /\ leaked' = leaked + Dropped(writer)
            /\ wfail' = "none"
    /\ UNCHANGED <<smooth_w, th_high, th_med, serial_queue, outputs, rx>>

\* if stop: lines 172-178
Stop ==
    /\ running
    /\ running' = FALSE
    /\ IF reader # NoReader
       THEN /\ threads' = [threads EXCEPT ![reader].stop = TRUE]
            /\ reader' = NoReader
       ELSE UNCHANGED <<reader, threads>>
    /\ UNCHANGED <<config, values, serial_queue, writer, outputs, leaked, wfail, rx,
                   nticks, seen>>

\* faulty variant of TakeSample: no fallback, an empty queue yields the "no data" value
TakeSampleNoFallback(d, q, g) ==
    IF d THEN [val |-> DemoSample(g), queue |-> q]
    ELSE IF q # <<>> THEN [val |-> Head(q), queue |-> Tail(q)]
    ELSE [val |-> 0 - 1, queue |-> q]

\* faulty variant of TakeSample: q.pop() instead of q.pop(0), the newest first
TakeSampleNewest(d, q, g) ==
    IF ~d /\ q # <<>>
    THEN [val |-> q[Len(q)], queue |-> SubSeq(q, 1, Len(q) - 1)]
    ELSE [val |-> DemoSample(g), queue |-> q]

\* lines 185-192: the sample of the tick and the queue after taking it
TakeSample(d, q, g) ==
    IF ~d /\ q # <<>>
    THEN [val |-> Head(q), queue |-> Tail(q)]
    ELSE [val |-> DemoSample(g), queue |-> q]

\* if st.session_state.running: lines 183-222.  d, sl: the widgets as read by
\* this run; g: the gauss draw; wok: whether the writer's write succeeds
Tick(d, sl, g, wok) ==
    /\ running
    /\ demo_mode' = d
    /\ smooth_w' = sl[1]
    /\ th_high' = sl[2]
    /\ th_med' = sl[3]
    /\ val' = TakeSample(d, serial_queue, g).val
    /\ serial_queue' = TakeSample(d, serial_queue, g).queue
    /\ values' = DequeAppend(values, val', HISTORY_MAXLEN)
    /\ smooth' = Smooth(LastK(values', sl[1]), val')
    /\ level' = Classify(smooth', sl[2], sl[3])
    /\ IF writer.made
       THEN /\ writer' = WriterSend(writer, wok)
            /\ wire_out' = WriterWrote(writer, <<"SET", level'>>, wok)
            /\ wfail' = SendOutcome(writer, wfail, wok)
       ELSE /\ wire_out' = NoCommand
            /\ UNCHANGED <<writer, wfail>>
    /\ nticks' = nticks + 1
    /\ seen' = Append(seen, val')
    /\ UNCHANGED <<detected_port, running, reader, threads, leaked, rx>>

\* ---------------------------------------------------------------------
\* Spec: the whole program.  Sessions start and stop in either mode, up to
\* MaxReaders reader threads are created, the sliders stay at their defaults.
\* ---------------------------------------------------------------------
Appends(bytes) == Decode(bytes, <<>>) # <<>>

\* the readers are followed while the queue is shorter than MaxQueue
Followed(bytes) == Appends(bytes) => Len(serial_queue) < MaxQueue

StartStep == \E d \in BOOLEAN, p \in Ports, rok \in BOOLEAN, wok \in BOOLEAN : Start(d, p, rok, wok)

StopStep == Stop

TickStep ==
    /\ nticks < MaxTicks
    /\ \E d \in BOOLEAN, wok \in BOOLEAN : Tick(d, DefaultSliders, GAUSS_MU, wok)

ReaderTopStep == \E i \in Threads : ReaderTop(i)

ReaderConnectStep == \E i \in Threads, ok \in BOOLEAN : ReaderConnect(i, ok)

ReaderReadStep ==
    \E i \in Threads, bytes \in Lines :
        /\ ReaderRead(i, bytes)
        /\ Followed(bytes)
        /\ UNCHANGED rx

ReaderReadErrorStep == \E i \in Threads : ReaderReadError(i) /\ UNCHANGED rx

Next ==
    \/ StartStep
    \/ StopStep
    \/ TickStep
    \/ ReaderTopStep
    \/ ReaderConnectStep
    \/ ReaderReadStep
    \/ ReaderReadErrorStep

Spec == Init /\ [][Next]_vars

\* ---------------------------------------------------------------------
\* SpecSignal: the signal path.  One reader thread, device lines in and out
\* of the protocol's range, the sliders moved between ticks.
\* ---------------------------------------------------------------------
SignalStartStep ==
    \E d \in BOOLEAN, p \in Ports, rok \in BOOLEAN, wok \in BOOLEAN :
        /\ d \/ p = None \/ Created = {}
        /\ Start(d, p, rok, wok)

SignalTickStep ==
    /\ nticks < MaxSignalTicks
    /\ \E d \in BOOLEAN, sl \in SliderChoices, g \in GaussDraws, wok \in BOOLEAN :
        Tick(d, sl, g, wok)

SignalReadStep ==
    \E i \in Threads, bytes \in SignalLines :
        /\ ReaderRead(i, bytes)
        /\ Followed(bytes)
        /\ UNCHANGED rx

NextSignal ==
    \/ SignalStartStep
    \/ StopStep
    \/ SignalTickStep
    \/ ReaderTopStep
    \/ ReaderConnectStep
    \/ SignalReadStep
    \/ ReaderReadErrorStep

SpecSignal == Init /\ [][NextSignal]_vars

\* ---------------------------------------------------------------------
\* SpecScale: the reader's decoding.  One reader thread, every raw reading
\* of the protocol and the malformed lines; a sample is followed into an
\* empty queue, and rx records the outcome of every readline() call.
\* ---------------------------------------------------------------------
BadLines == {EmptyRead, GarbageLine, NoIntLine, NoPayloadLine, NoColonLine}

ScaleLines == BadLines \cup {PulseLine(raw) : raw \in 0..ADC_FULL_SCALE}

\* once the queue holds a sample only the lines that append nothing are followed
ScaleInput == IF serial_queue = <<>> THEN ScaleLines ELSE BadLines

ScaleRead(i) == \E bytes \in ScaleInput : ReaderRead(i, bytes) /\ rx' = bytes

ScaleReadError(i) == ReaderReadError(i) /\ rx' = IOError

ScaleReadStep == \E i \in Threads : ScaleRead(i)

ScaleReadErrorStep == \E i \in Threads : ScaleReadError(i)

NextScale ==
    \/ SignalStartStep
    \/ StopStep
    \/ ReaderTopStep
    \/ ReaderConnectStep
    \/ ScaleReadStep
    \/ ScaleReadErrorStep

SpecScale == Init /\ [][NextScale]_vars

\* ---------------------------------------------------------------------
\* SpecLink: the reader's connection.  One reader thread, its reads observed
\* in rx, nobody consuming.  FairLink adds the scheduling of the thread: a
\* live thread keeps running; readline (timeout=1) and sleep(1) return.
\* ---------------------------------------------------------------------
LinkRead(i) ==
    \E bytes \in Lines :
        /\ ReaderRead(i, bytes)
        /\ Followed(bytes)
        /\ rx' = bytes

LinkReadStep == \E i \in Threads : LinkRead(i)

LinkReaderStep(i) ==
    \/ ReaderTop(i)
    \/ \E ok \in BOOLEAN : ReaderConnect(i, ok)
    \/ LinkRead(i)
    \/ ScaleReadError(i)

NextLink ==
    \/ SignalStartStep
    \/ StopStep
    \/ ReaderTopStep
    \/ ReaderConnectStep
    \/ LinkReadStep
    \/ ScaleReadErrorStep

SpecLink == Init /\ [][NextLink]_vars

FairLink == SpecLink /\ \A i \in Threads : WF_vars(LinkReaderStep(i))

\* ---------------------------------------------------------------------
\* SpecHist: long demo sessions.  The generator's draws follow a sawtooth
\* from a free first draw, so that every sample differs from its neighbours.
\* ---------------------------------------------------------------------
HistDraws == IF seen = <<>> THEN {0, GAUSS_MU, 100} ELSE {(seen[Len(seen)] + 7) % 101}

HistStartStep == \E p \in Ports : Start(TRUE, p, FALSE, FALSE)

HistTickStep ==
    /\ nticks < MaxHistTicks
    /\ \E g \in HistDraws : Tick(TRUE, DefaultSliders, g, FALSE)

NextHist ==
    \/ HistStartStep
    \/ StopStep
    \/ HistTickStep

SpecHist == Init /\ [][NextHist]_vars

\* ---------------------------------------------------------------------
\* Properties
\* ---------------------------------------------------------------------
TypeOK ==
    /\ running \in BOOLEAN
    /\ Len(values) <= HISTORY_MAXLEN
    /\ reader \in Threads \cup {NoReader}

\* the samples the smoothing of the latest tick covers, by the claim's account:
\* the last min(smooth_w, n) of the n samples seen since start
ClaimedWindow == LastK(seen, Min(smooth_w, Len(seen)))

\* C1: at every tick the smoothed value is the floored arithmetic mean of the
\* last min(w, n) samples seen since the session started, for every window
\* size w and every sample sequence.
C1_SmoothedIsFlooredMean ==
    nticks > 0 => smooth = FloorDiv(Sum(ClaimedWindow), Len(ClaimedWindow))

\* C2: the level of a tick is Relaxed exactly when smoothed >= high, Mild
\* exactly when med <= smoothed < high, and High exactly when smoothed < med,
\* for every pair of thresholds.
C2_LevelAsStated ==
    nticks > 0 =>
        /\ level = 0 <=> smooth >= th_high
        /\ level = 1 <=> (th_med <= smooth /\ smooth < th_high)
        /\ level = 2 <=> smooth < th_med

\* C3: the thresholds a tick reads always satisfy med < high.
C3_MedBelowHigh == nticks > 0 => th_med < th_high

\* C4: every sample in the hand-off queue and every sample in the history is
\* an integer in [0,100].
C4_SamplesInRange ==
    /\ \A k \in 1..Len(serial_queue) : serial_queue[k] \in 0..100
    /\ \A k \in 1..Len(values) : values[k] \in 0..100


\* the raw reading each wire line of the protocol carries
RawOf ==
    LET line == [raw \in 0..ADC_FULL_SCALE |-> PulseLine(raw)]
    IN  [l \in {line[raw] : raw \in 0..ADC_FULL_SCALE} |->
            CHOOSE raw \in 0..ADC_FULL_SCALE : line[raw] = l]

\* a readline() call of reader i returned or raised in this step
ReadReturns(i) == threads[i].pc = "read" /\ threads'[i].pc = "top"

\* C5: for every raw reading raw in 0..1023 carried by an accepted line, the
\* sample the reader appends to the hand-off queue is floor(100 * raw / 1023).
C5_ScaledSample ==
    [][\A i \in Threads :
          ReadReturns(i) /\ rx' \in DOMAIN RawOf =>
              serial_queue' = Append(serial_queue, FloorDiv(100 * RawOf[rx'], ADC_FULL_SCALE))]_vars

\* raw=512 was read and 50 was appended
C5_Witness == rx = PulseLine(512) /\ serial_queue = <<50>>

\* C6: while Reading, a line without the prefix, a line whose payload is not
\* an integer, or an empty line from a read timeout leaves the handle open,
\* the reader in Reading and the hand-off queue unchanged.
C6_BadLineIgnored ==
    [][\A i \in Threads :
          ReadReturns(i) /\ rx' \in {EmptyRead, GarbageLine, NoColonLine, NoIntLine, NoPayloadLine}
              => /\ serial_queue' = serial_queue
                 /\ threads[i].ser = Open
                 /\ threads'[i].ser = Open
                 /\ threads'[i].stop = threads[i].stop]_vars

\* a reader has just read "garbage" and is back at the loop top, still connected
C6_Witness ==
    /\ rx = GarbageLine
    /\ \E i \in Threads : threads[i].pc = "top" /\ threads[i].ser = Open

\* reader i is at the loop top without a handle and has not been asked to stop
Disconnected(i) ==
    threads[i].pc = "top" /\ threads[i].ser = None /\ ~threads[i].stop

\* C7: an I/O error while Reading leaves the reader Disconnected with its
\* handle closed and gone (ser = None); a Disconnected reader whose stop has
\* not been requested always eventually calls connect() again, and the call
\* returns to the loop top, from where the same holds again: after every
\* failed attempt, without a cap.
C7_ReconnectForever ==
    /\ [][\A i \in Threads :
            ReadReturns(i) /\ rx' = IOError
                => threads'[i].ser = None /\ threads[i].ser = Open /\ leaked' = leaked]_vars
    /\ \A i \in Threads :
            /\ Disconnected(i) ~> (threads[i].stop \/ threads[i].pc = "connect")
            /\ (threads[i].pc = "connect") ~> (threads[i].pc = "top")

\* after an I/O error the reader is about to call connect() again
C7_Witness ==
    /\ rx = IOError
    /\ \E i \in Threads : threads[i].pc = "connect" /\ threads[i].ser = None

\* some tick is possible, whatever the widgets, the draw and the writer do
TickAny ==
    \E d \in BOOLEAN, sl \in SliderChoices, g \in GaussDraws, wok \in BOOLEAN : Tick(d, sl, g, wok)

\* C8: a running session can always tick, and every tick appends exactly one
\* sample to the history and emits one (smoothed, level) pair; with a live
\* source and an empty queue the sample is a locally generated demo sample.
C8_TickNeverStalls ==
    /\ [](running => ENABLED TickAny)
    /\ [][nticks' = nticks + 1 =>
            /\ running
            /\ seen' = Append(seen, val')
            /\ Len(values) < HISTORY_MAXLEN => values' = Append(values, val')
            /\ level' \in {0, 1, 2}
            /\ smooth' \in Int
            /\ (~demo_mode' /\ serial_queue = <<>>) =>
                    (val' \in 0..100 /\ serial_queue' = <<>>)]_vars

\* a hardware-mode tick found the queue empty and used a demo sample (the
\* device lines of SpecSignal never decode to 0 or 60)
C8_Witness ==
    /\ running
    /\ nticks > 0
    /\ ~demo_mode
    /\ reader # NoReader
    /\ val \in {0, GAUSS_MU}

\* C9: the history buffer holds at most 400 samples and always equals the
\* most recent min(400, n) samples of the session in arrival order.
C9_HistoryIsRecentTail ==
    /\ Len(values) <= HISTORY_MAXLEN
    /\ values = LastK(seen, Min(HISTORY_MAXLEN, Len(seen)))

\* more than 400 samples were appended: the oldest ones were evicted
C9_Witness == Len(seen) > HISTORY_MAXLEN /\ Len(values) = HISTORY_MAXLEN

\* C10: the hand-off queue is bounded: there is a capacity its length never
\* exceeds.  Stated for the capacities below the length up to which the model
\* follows the readers.
C10_QueueBounded == Len(serial_queue) < MaxQueue

\* a monitoring tick ran in this step
Ticked == nticks' = nticks + 1

\* a start in hardware mode created a reader and a writer in this step
HardwareStarted == ~running /\ running' /\ ~demo_mode'

\* C11: after a write failure in send the writer has no handle (the handle
\* was closed and forgotten), and every later send on it is a no-op: nothing
\* is written and no handle is opened, until a hardware start creates a new
\* writer.
C11_FailedWriterStaysSilent ==
    /\ [](wfail # "none" => writer.made /\ writer.ser = None)
    /\ [][wfail = "none" /\ wfail' = "failed"
            => writer.ser = Open /\ writer'.ser = None /\ wire_out' = NoCommand]_vars
    /\ [][wfail # "none" /\ Ticked
            => writer' = writer /\ wire_out' = NoCommand /\ wfail' = "later"]_vars
    /\ [][wfail # "none" /\ wfail' = "none" => HardwareStarted]_vars

\* in a hardware session a send failed and a later tick of the same session
\* called send again
C11_Witness ==
    /\ wfail = "later"
    /\ running
    /\ reader # NoReader
    /\ nticks >= 2

\* some tick writes a command to the device: for some state of the port
\* (wok), the send of the tick puts its command on the wire
WritingTick ==
    \E d \in BOOLEAN, sl \in SliderChoices, g \in GaussDraws, wok \in BOOLEAN :
        Tick(d, sl, g, wok) /\ wire_out' # NoCommand

\* C12: the writer recovers from a write failure on its own: after a send of
\* the running hardware session has failed, a later send of that session is
\* written to the device once the port is available.
C12_WriterRecovers ==
    (running /\ reader # NoReader /\ wfail # "none") => ENABLED WritingTick

\* every reader thread created so far has left run()
AllReadersExited == \A i \in Threads : threads[i].pc \in {"unborn", "done"}

\* C13: every serial handle opened by the reader or by the writer is closed on
\* every exit path; in particular, once the session has been stopped and its
\* reader thread has exited, no handle is still open.
C13_NoHandleLeftOpen ==
    (~running /\ AllReadersExited) =>
        /\ writer.ser # Open
        /\ \A i \in Threads : threads[i].ser # Open

\* C14: after stop() the reader loop eventually terminates (its reads and
\* sleeps return), whatever it was doing; when it has terminated its handle,
\* if it had one, is closed; the flag is observed at the loop top only, so
\* after stop() the loop finishes at most the iteration body it is in and
\* then leaves.
C14_StopTerminates ==
    /\ \A i \in Threads : threads[i].stop ~> (threads[i].pc = "done")
    /\ [](\A i \in Threads : threads[i].pc = "done" => threads[i].ser # Open)
    /\ [][\A i \in Threads :
            threads[i].stop /\ threads'[i] # threads[i] =>
                /\ threads'[i].stop
                /\ \/ threads[i].pc = "top" /\ threads'[i].pc = "done"
                   \/ threads[i].pc \in {"connect", "read"} /\ threads'[i].pc = "top"]_vars

\* a stopped reader has left run() and closed the handle it held
C14_Witness ==
    \E i \in Threads :
        threads[i].stop /\ threads[i].pc = "done" /\ threads[i].ser = "closed"

\* C15: under every interleaving of reader appends and hardware-mode ticks the
\* hand-off queue is a FIFO without loss or duplication: a hardware-mode tick
\* with a non-empty queue removes exactly the head and uses it as its sample,
\* a tick with an empty queue removes nothing, and every other step leaves
\* the queue alone or appends one sample behind the ones it holds.
C15_QueueIsFifo ==
    [][/\ (Ticked /\ ~demo_mode' /\ serial_queue # <<>>) =>
            (val' = Head(serial_queue) /\ serial_queue' = Tail(serial_queue))
       /\ (Ticked /\ (demo_mode' \/ serial_queue = <<>>)) => serial_queue' = serial_queue
       /\ ~Ticked =>
            \/ serial_queue' = serial_queue
            \/ /\ Len(serial_queue') = Len(serial_queue) + 1
               /\ SubSeq(serial_queue', 1, Len(serial_queue)) = serial_queue
               /\ \E i \in Threads : ReadReturns(i)]_vars

\* two different samples were queued, the tick took the older one and left
\* the newer one
C15_Witness ==
    /\ nticks > 0
    /\ ~demo_mode
    /\ val = Scale(0 - 100)
    /\ serial_queue = <<Scale(2046)>>

\* C16 as stated: on every tick in which the writer is connected exactly one
\* command is written, SET:k with k the level classified in that tick from
\* that tick's smoothed value.
C16_CommandEveryConnectedTick ==
    [][(Ticked /\ writer.ser = Open) =>
            wire_out' = <<"SET", Classify(smooth', th_high', th_med')>>]_vars

\* C16, amended: on every tick in which the writer is connected and its
\* write does not fail, exactly one command is written, SET:k with k the
\* level classified in that tick from that tick's smoothed value; when the
\* write fails nothing is written and the writer is left unconnected; a tick
\* without a connected writer writes nothing.
C16_CommandUnlessWriteFails ==
    [][Ticked =>
        /\ level' = Classify(smooth', th_high', th_med')
        /\ (writer.ser = Open /\ wfail' # "failed") =>
                (wire_out' = <<"SET", level'>> /\ writer' = writer)
        /\ (writer.ser = Open /\ wfail' = "failed") =>
                (wire_out' = NoCommand /\ writer'.ser = None)
        /\ writer.ser # Open => wire_out' = NoCommand]_vars

\* a tick classified High and wrote SET:2 through a connected writer
C16_Witness ==
    /\ nticks > 0
    /\ level = 2
    /\ writer.ser = Open
    /\ wire_out = <<"SET", 2>>

\* the start button's branch ran in this step: while the session is not
\* running it is the only part of the script that changes anything
StartRan ==
    /\ ~running
    /\ \/ running'
       \/ <<demo_mode, detected_port, values, nticks, seen>>'
            # <<demo_mode, detected_port, values, nticks, seen>>

\* C17: a start in hardware mode with no port resolved leaves the session not
\* running, creates and starts no reader and opens no writer handle (the
\* reader, the writer and every thread are as they were); a start in demo
\* mode with no port resolved puts the session in the running state.
C17_StartWithoutPort ==
    [][/\ (StartRan /\ ~demo_mode' /\ detected_port' = None) =>
            /\ ~running'
            /\ threads' = threads
            /\ reader' = reader
            /\ writer' = writer
            /\ leaked' = leaked
       /\ (StartRan /\ demo_mode' /\ detected_port' = None) =>
            /\ running'
            /\ threads' = threads
            /\ reader' = reader
            /\ writer' = writer]_vars

\* the latest start was in hardware mode with no port: nothing runs and
\* nothing was created
C17_Witness ==
    /\ ~demo_mode
    /\ detected_port = None
    /\ nticks = 0
    /\ ~running
    /\ Created = {}
    /\ ~writer.made

\* the reader threads that were started and have not left run()
AliveReaders == {i \in Threads : threads[i].pc \notin {"unborn", "done"}}

\* C18: across any sequence of starts and stops at most one reader loop is
\* alive at any time.
C18_OneReaderAlive == Cardinality(AliveReaders) <= 1

\* C19: when a session starts the hand-off queue holds no sample left over
\* from an earlier session: start resets the queue.
C19_StartResetsQueue == [][(StartRan /\ running') => serial_queue' = <<>>]_vars

\* C20: in a session that was started with the demo flag on no command is
\* ever written to the device.  A running session has no reader exactly when
\* its start was in demo mode, and after its first tick wire_out is what the
\* latest tick of this session wrote.
C20_DemoSessionNeverWrites ==
    (running /\ reader = NoReader /\ nticks > 0) => wire_out = NoCommand

====
